---- MODULE Spec2Model ----
(***************************************************************************)
(* A model of searchable-fileupload: the Express server of src/server.js   *)
(* (listing, upload, download) and the search routes and highlight         *)
(* renderer of src/unnamed/part_000 (search.js).                           *)
(*                                                                         *)
(* Text is a sequence of symbols.  A symbol is a one-character string, or  *)
(* an atomic lexeme (a markup tag of a template, a MIME word) that holds   *)
(* none of the five characters escapeHtml rewrites.                        *)
(***************************************************************************)
EXTENDS Integers, Sequences, FiniteSets, TLC

VARIABLES
    hlIn,       \* the argument of a buildHighlightTable call
    hlOut,      \* the string that call returned
    hlDone,     \* has the call returned
    files,      \* the collection abc_uploads.files (the Stored File Records)
    chunks,     \* the ids that have chunks in abc_uploads.chunks
    tmp,        \* the uploads whose Multer temp file is on disk
    clock,      \* the wall clock, as uploadDate reads it
    uploads,    \* the POST /upload requests, each with its position
    rq,         \* the listing, search or download request in flight (or last answered)
    alive       \* is the Node process running

hlVars == <<hlIn, hlOut, hlDone>>
storeVars == <<files, chunks, tmp, clock>>
srvVars == <<files, chunks, tmp, clock, uploads, rq, alive>>

vars == <<hlIn, hlOut, hlDone, files, chunks, tmp, clock, uploads, rq, alive>>

-----------------------------------------------------------------------------
(* Bounds of the model *)

\* longest list of text segments of one highlight entry
MaxSegs == 2
\* longest highlight list
MaxHl == 2
\* POST /upload requests of one run of the upload specification
MaxUploads == 1
\* POST /upload requests of one run of the listing specification
MaxListDocs == 2
\* longest keywords form value
MaxKw == 5

-----------------------------------------------------------------------------
(* Text helpers *)

Rep(c, n) == [i \in 1..n |-> c]

SeqsUpTo(S, n) == UNION {[1..k -> S] : k \in 0..n}

\* String.prototype.slice(from) with 0 <= from <= length (0-based from)
SliceFrom(s, from) == SubSeq(s, from + 1, Len(s))

\* Array.prototype.join("") over a sequence of texts
Join(parts) ==
    LET F[i \in 0..Len(parts)] == IF i = 0 THEN <<>> ELSE F[i - 1] \o parts[i]
    IN  F[Len(parts)]

\* String.prototype.replace(/c/g, r): every c of s replaced by r (by halves, so
\* that a long text does not nest deeply)
RECURSIVE ReplaceAll(_, _, _)
ReplaceAll(s, c, r) ==
    IF Len(s) = 0 THEN <<>>
    ELSE IF Len(s) = 1 THEN (IF s[1] = c THEN r ELSE s)
    ELSE LET h == Len(s) \div 2
         IN  ReplaceAll(SubSeq(s, 1, h), c, r) \o ReplaceAll(SubSeq(s, h + 1, Len(s)), c, r)

-----------------------------------------------------------------------------
(* search.js: escapeHtml *)

escapeHtml(str) ==
    IF str = <<>> THEN <<>>
    ELSE
    ReplaceAll(
      ReplaceAll(
        ReplaceAll(
          ReplaceAll(
            ReplaceAll(str, "&", <<"&", "a", "m", "p", ";">>),
            "<", <<"&", "l", "t", ";">>),
          ">", <<"&", "g", "t", ";">>),
        "\"", <<"&", "q", "u", "o", "t", ";">>),
      "'", <<"&", "#", "3", "9", ";">>)

-----------------------------------------------------------------------------
(* search.js: buildHighlightTable *)

AROUND_LEN == 80

\* the literal prefixed to a trimmed non-hit segment (an ellipsis)
Ellipsis == <<"ELLIPSIS">>

MarkOpen == <<"<mark>">>
MarkClose == <<"</mark>">>
RowOpen == <<"<tr>", "<td>">>
CellSep == <<"</td>", "<td>">>
RowClose == <<"</td>", "</tr>">>
TableOpen == <<"<table class=subhl>", "<thead>", "<tr>", "<th>", "F", "i", "e", "l", "d",
               "</th>", "<th>", "S", "n", "i", "p", "p", "e", "t", "</th>", "</tr>",
               "</thead>", "<tbody>">>
TableClose == <<"</tbody>", "</table>">>

\* a plausible slip: the hit is trimmed like a context segment
RenderPartTrimHit(t) ==
    LET v == escapeHtml(t.value)
        w == IF Len(v) > AROUND_LEN
             THEN Ellipsis \o SliceFrom(v, Len(v) - AROUND_LEN)
             ELSE v
    IN  IF t.type = "hit" THEN MarkOpen \o w \o MarkClose ELSE w

\* the callback of texts.map: one segment to its part of the snippet
RenderPart(t) ==
    LET v == escapeHtml(t.value)
    IN  IF t.type = "hit"
        THEN MarkOpen \o v \o MarkClose
        ELSE IF Len(v) > AROUND_LEN
             THEN Ellipsis \o SliceFrom(v, Len(v) - AROUND_LEN)
             ELSE v

\* a plausible slip: the parts of the snippet are joined last to first
RenderRowReversed(h) ==
    LET path == escapeHtml(h.path)
        n == Len(h.texts)
        parts == [i \in 1..n |-> RenderPart(h.texts[n + 1 - i])]
        snippet == Join(parts)
    IN  RowOpen \o path \o CellSep \o snippet \o RowClose

\* the callback of highlights.map: one highlight entry to its table row
RenderRow(h) ==
    LET path == escapeHtml(h.path)
        parts == [i \in 1..Len(h.texts) |-> RenderPart(h.texts[i])]
        snippet == Join(parts)
    IN  RowOpen \o path \o CellSep \o snippet \o RowClose

\* highlights is [isArray, items]: undefined or a missing field is isArray = FALSE
buildHighlightTable(highlights) ==
    IF ~highlights.isArray \/ Len(highlights.items) = 0 THEN <<>>
    ELSE LET rows == Join([i \in 1..Len(highlights.items) |->
                              RenderRow(highlights.items[i])])
         IN  IF rows = <<>> THEN <<>>
             ELSE TableOpen \o rows \o TableClose

-----------------------------------------------------------------------------
(* server.js: values *)

None == [defined |-> FALSE, s |-> <<>>]
Some(t) == [defined |-> TRUE, s |-> t]

\* a query parameter: absent, or the text given
Absent == [present |-> FALSE, s |-> <<>>]
Given(t) == [present |-> TRUE, s |-> t]

\* String.prototype.toLowerCase on the lexemes the model uses
LowerSym(c) ==
    CASE c = "Application/" -> "application/"
      [] c = "JSON" -> "json"
      [] c = "A" -> "a"
      [] c = "F" -> "f"
      [] OTHER -> c

toLowerCase(t) == [i \in 1..Len(t) |-> LowerSym(t[i])]

APP_JSON == <<"application/", "json">>
TEXT_JSON == <<"text/", "json">>
APP_XML == <<"application/", "xml">>
TEXT_XML == <<"text/", "xml">>
DOCX == <<"application/", "vnd.openxmlformats-officedocument.wordprocessingml.document">>

\* String.prototype.endsWith('+xml')
EndsWithPlusXml(mt) == Len(mt) >= 1 /\ mt[Len(mt)] = "+xml"

shouldExtractContent(file) ==
    IF ~file.present \/ file.mimetype = <<>> THEN FALSE
    ELSE LET mt == toLowerCase(file.mimetype)
         IN  IF mt = APP_JSON \/ mt = TEXT_JSON THEN TRUE
             ELSE IF mt = APP_XML \/ mt = TEXT_XML \/ EndsWithPlusXml(mt) THEN TRUE
             ELSE IF mt = DOCX THEN TRUE
             ELSE FALSE

TEN_MB == 10 * 1024 * 1024

DEFAULT_PAGE_SIZE == 20

-----------------------------------------------------------------------------
(* server.js: the keywords form field *)

IsSpace(c) == c = " "

\* String.prototype.trim
Trim(t) ==
    LET keep == {i \in 1..Len(t) : ~IsSpace(t[i])}
    IN  IF keep = {} THEN <<>>
        ELSE SubSeq(t, CHOOSE i \in keep : \A j \in keep : i <= j,
                       CHOOSE i \in keep : \A j \in keep : i >= j)

\* String.prototype.split(sep) for a one-character separator
Split(t, sep) ==
    LET cuts == {i \in 1..Len(t) : t[i] = sep}
        n == Cardinality(cuts)
        \* the k-th cut, with 0 before the text and Len + 1 after it
        cut(k) == IF k = 0 THEN 0
                  ELSE IF k = n + 1 THEN Len(t) + 1
                  ELSE CHOOSE i \in cuts : Cardinality({j \in cuts : j < i}) = k - 1
    IN  [k \in 1..(n + 1) |-> SubSeq(t, cut(k - 1) + 1, cut(k) - 1)]

\* Array.prototype.filter(Boolean) over texts: the empty string is dropped
FilterNonEmpty(ts) ==
    LET F[i \in 0..Len(ts)] ==
            IF i = 0 THEN <<>>
            ELSE IF ts[i] = <<>> THEN F[i - 1] ELSE Append(F[i - 1], ts[i])
    IN  F[Len(ts)]

\* a plausible slip: the pieces are not trimmed
keywordArrayNoTrim(keywords) ==
    IF keywords = <<>> THEN <<>> ELSE FilterNonEmpty(Split(keywords, ","))

\* keywords ? keywords.split(',').map(k => k.trim()).filter(Boolean) : []
keywordArray(keywords) ==
    IF keywords = <<>> THEN <<>>
    ELSE LET parts == Split(keywords, ",")
         IN  FilterNonEmpty([i \in 1..Len(parts) |-> Trim(parts[i])])

\* Array.prototype.join(sep)
JoinWith(ts, sep) ==
    LET F[i \in 0..Len(ts)] ==
            IF i = 0 THEN <<>>
            ELSE IF i = 1 THEN ts[1]
            ELSE F[i - 1] \o sep \o ts[i]
    IN  F[Len(ts)]

-----------------------------------------------------------------------------
(* server.js: POST /upload *)

\* a || b on strings
OrElse(a, b) == IF a # <<>> THEN a ELSE b

Response(status, body) == [status |-> status, body |-> body]

\* the _id GridFS gives the stream of upload u: 24 lower-case hex digits
FileId(u) == Rep("a", 23) \o <<CASE u = 1 -> "1" [] u = 2 -> "2" [] u = 3 -> "3"
                                  [] u = 4 -> "4" [] OTHER -> "5">>

IdleUpload ==
    [pc |-> "idle", file |-> [present |-> FALSE], body |-> [displayName |-> <<>>],
     content |-> None, logged |-> FALSE, metadata |-> [name |-> <<>>], res |-> <<>>]

\* a plausible slip: the extracted string is stored whenever it is defined
BuildMetadataKeepEmpty(file, body, contentString) ==
    LET mimeType == toLowerCase(file.mimetype)
        metadata == [name |-> OrElse(body.displayName, file.originalname),
                     type |-> OrElse(body.type, mimeType),
                     keywords |-> keywordArray(body.keywords),
                     briefing |-> OrElse(body.briefing, <<>>),
                     sizeBytes |-> file.size,
                     sourcePath |-> file.originalname]
    IN  IF contentString.defined
        THEN [content |-> contentString.s] @@ metadata
        ELSE metadata

\* lines 266-277: the Metadata Document, content only when a non-empty string
BuildMetadata(file, body, contentString) ==
    LET mimeType == toLowerCase(file.mimetype)
        metadata == [name |-> OrElse(body.displayName, file.originalname),
                     type |-> OrElse(body.type, mimeType),
                     keywords |-> keywordArray(body.keywords),
                     briefing |-> OrElse(body.briefing, <<>>),
                     sizeBytes |-> file.size,
                     sourcePath |-> file.originalname]
    IN  IF contentString.defined /\ Len(contentString.s) > 0
        THEN [content |-> contentString.s] @@ metadata
        ELSE metadata

\* lines 247-258: what the awaited read or extraction yields when it succeeds
ExtractedContent(file) ==
    LET mimeType == toLowerCase(file.mimetype)
    IN  IF mimeType = APP_JSON \/ mimeType = TEXT_JSON THEN Some(file.text)
        ELSE IF mimeType = APP_XML \/ mimeType = TEXT_XML \/ EndsWithPlusXml(mimeType)
             THEN Some(file.text)
        ELSE IF mimeType = DOCX THEN Some(OrElse(file.docText, <<>>))
        ELSE None

\* a plausible slip: the size ceiling is not applied
WantsExtractionNoCeiling(file) == shouldExtractContent(file)

\* line 245: the guard of the extraction
WantsExtraction(file) == file.size <= TEN_MB /\ shouldExtractContent(file)

\* lines 279-285: the handler opens the two streams and returns
OpenStreams(up, contentString, logged) ==
    [up EXCEPT !.pc = "streaming",
               !.content = contentString,
               !.logged = logged,
               !.metadata = BuildMetadata(up.file, up.body, contentString)]

\* a plausible slip: a failed extraction is answered as an error
AfterExtractFailureAbort(up) ==
    [up EXCEPT !.pc = "done", !.logged = TRUE,
               !.res = Append(@, Response(500, "Internal server error"))]

\* lines 259-263: the catch of the extraction: log, skip content, go on
AfterExtractFailure(up) == OpenStreams(up, None, TRUE)

\* the request arrives (Multer has written the temp file) and the handler runs
\* to its first await, or to its end
UploadStart(u, F, B) ==
    /\ alive
    /\ uploads[u].pc = "idle"
    /\ \A v \in 1..(u - 1) : uploads[v].pc # "idle"
    /\ \E f \in F, b \in B :
          LET up == [uploads[u] EXCEPT !.file = f, !.body = b]
          IN  IF ~f.present
              THEN /\ uploads' = [uploads EXCEPT ![u] =
                          [up EXCEPT !.pc = "done",
                                     !.res = Append(@, Response(400, "No file uploaded"))]]
                   /\ UNCHANGED tmp
              ELSE /\ tmp' = tmp \cup {u}
                   /\ uploads' = [uploads EXCEPT ![u] =
                          IF WantsExtraction(f)
                          THEN [up EXCEPT !.pc = "extracting"]
                          ELSE OpenStreams(up, None, FALSE)]
    /\ UNCHANGED <<hlIn, hlOut, hlDone, files, chunks, clock, rq, alive>>

\* the awaited readFile or mammoth call settles
ExtractSettle(u) ==
    /\ alive
    /\ uploads[u].pc = "extracting"
    /\ \E ok \in BOOLEAN :
          uploads' = [uploads EXCEPT ![u] =
              IF ok THEN OpenStreams(@, ExtractedContent(@.file), FALSE)
              ELSE AfterExtractFailure(@)]
    /\ UNCHANGED <<hlIn, hlOut, hlDone, files, chunks, tmp, clock, rq, alive>>

\* the upload stream writes chunks of the file to abc_uploads.chunks
StreamChunk(u) ==
    /\ alive
    /\ uploads[u].pc = "streaming"
    /\ uploads[u].file.size > 0
    /\ FileId(u) \notin chunks
    /\ chunks' = chunks \cup {FileId(u)}
    /\ UNCHANGED <<hlIn, hlOut, hlDone, files, tmp, clock, uploads, rq, alive>>

\* the Stored File Record GridFS writes when the stream ends
FileDoc(u, up, now) ==
    [_id |-> FileId(u),
     filename |-> up.file.originalname,
     contentType |-> toLowerCase(up.file.mimetype),
     length |-> up.file.size,
     uploadDate |-> now,
     metadata |-> up.metadata]

\* a plausible slip: the error handler answers with the redirect
OnUploadErrorRedirect(up) ==
    [up EXCEPT !.pc = "failed", !.res = Append(@, Response(302, "/"))]

\* lines 292-295: uploadStream.on('error')
OnUploadError(up) ==
    [up EXCEPT !.pc = "failed", !.res = Append(@, Response(500, "Upload failed"))]

\* a replacement of the collection by the new document
InsertOneReplacing(coll, doc) == {doc}

\* the bucket's insert of the files document: the collection gains it, and every
\* document it held stays as it was
InsertOne(coll, doc) == coll \cup {doc}

\* lines 287-290: the files document is written, 'finish' fires: unlink, redirect
StreamFinish(u) ==
    /\ alive
    /\ uploads[u].pc = "streaming"
    /\ uploads[u].file.size > 0 => FileId(u) \in chunks
    /\ \E d \in {0, 1} :
          /\ clock' = clock + d
          /\ files' = InsertOne(files, FileDoc(u, uploads[u], clock'))
    /\ tmp' = tmp \ {u}
    /\ uploads' = [uploads EXCEPT ![u] =
          [@ EXCEPT !.pc = "done", !.res = Append(@, Response(302, "/"))]]
    /\ UNCHANGED <<hlIn, hlOut, hlDone, chunks, rq, alive>>

\* a write to the blob store fails: 'error' fires, no files document is written
StreamError(u) ==
    /\ alive
    /\ uploads[u].pc = "streaming"
    /\ uploads' = [uploads EXCEPT ![u] = OnUploadError(@)]
    /\ UNCHANGED <<hlIn, hlOut, hlDone, files, chunks, tmp, clock, rq, alive>>

\* the temp-file read stream fails: it has no 'error' listener, so the event
\* is thrown as an uncaught exception and the process ends
ReadStreamError(u) ==
    /\ alive
    /\ uploads[u].pc = "streaming"
    /\ alive' = FALSE
    /\ UNCHANGED <<hlIn, hlOut, hlDone, files, chunks, tmp, clock, uploads, rq>>

-----------------------------------------------------------------------------
(* server.js: the listing routes GET / and GET /files *)

Max(a, b) == IF a >= b THEN a ELSE b
Min(a, b) == IF a <= b THEN a ELSE b

\* Math.ceil(a / b) for a >= 0, b >= 1
CeilDiv(a, b) == (a + b - 1) \div b

Digits == {"0", "1", "2", "3", "4", "5", "6", "7", "8", "9"}

DigitVal(c) ==
    CASE c = "0" -> 0 [] c = "1" -> 1 [] c = "2" -> 2 [] c = "3" -> 3 [] c = "4" -> 4
      [] c = "5" -> 5 [] c = "6" -> 6 [] c = "7" -> 7 [] c = "8" -> 8 [] OTHER -> 9

NaN == [nan |-> TRUE, val |-> 0]

\* parseInt(x): leading white space, an optional sign, then the longest run of
\* decimal digits; NaN when there is none (undefined included)
parseInt(p) ==
    IF ~p.present THEN NaN
    ELSE LET s == p.s
             lead == CHOOSE k \in 0..Len(s) :
                        /\ \A i \in 1..k : IsSpace(s[i])
                        /\ k < Len(s) => ~IsSpace(s[k + 1])
             signed == lead < Len(s) /\ s[lead + 1] \in {"-", "+"}
             from == IF signed THEN lead + 1 ELSE lead
             n == CHOOSE k \in 0..(Len(s) - from) :
                        /\ \A i \in 1..k : s[from + i] \in Digits
                        /\ from + k < Len(s) => s[from + k + 1] \notin Digits
             V[i \in 0..n] == IF i = 0 THEN 0 ELSE 10 * V[i - 1] + DigitVal(s[from + i])
         IN  IF n = 0 THEN NaN
             ELSE [nan |-> FALSE,
                   val |-> IF signed /\ s[lead + 1] = "-" THEN 0 - V[n] ELSE V[n]]

\* x || d on a number: NaN and 0 are falsy
NumOr(x, d) == IF x.nan \/ x.val = 0 THEN d ELSE x.val

\* lines 73 and 309
EffectivePage(p) == Max(NumOr(parseInt(p), 1), 1)

\* lines 74 and 310
EffectivePageSize(p) == Max(NumOr(parseInt(p), DEFAULT_PAGE_SIZE), 1)

\* lines 79 and 315
TotalPages(totalDocs, pageSize) == Max(CeilDiv(totalDocs, pageSize), 1)

\* the orders sort({uploadDate: -1}) may return: equal dates in either order
SortedDesc(S) ==
    LET n == Cardinality(S)
    IN  {o \in [1..n -> S] :
            /\ \A i, j \in 1..n : i # j => o[i] # o[j]
            /\ \A i, j \in 1..n : i < j => o[i].uploadDate >= o[j].uploadDate}

\* cursor.skip(k).limit(n) with n >= 1
SkipLimit(o, k, n) == SubSeq(o, k + 1, Min(k + n, Len(o)))

\* a plausible slip: the page number itself is used as the offset
PageOfSkipPage(o, page, pageSize) == SkipLimit(o, page * pageSize, pageSize)

\* lines 81-86 and 317-322
PageOf(o, page, pageSize) == SkipLimit(o, (page - 1) * pageSize, pageSize)

\* lines 88-111: the text cells of one table row of GET /, as placed in the markup
\* (the row number, the size and the date are numbers the server formats)
IndexRow(file) ==
    LET md == file.metadata
    IN  [displayName |-> OrElse(md.name, file.filename),
         filename |-> file.filename,
         displayType |-> OrElse(md.type, OrElse(file.contentType, <<>>)),
         keywords |-> JoinWith(md.keywords, <<",", " ">>),
         briefing |-> OrElse(md.briefing, <<>>),
         href |-> <<"/files/">> \o file._id]

NoRequest == [kind |-> "none", pc |-> "done"]

SlotFree == rq.pc = "done"

\* the request arrives; the handler reads its parameters and awaits the count
ListStart(kind, P, S) ==
    /\ alive
    /\ SlotFree
    /\ \E p \in P, s \in S :
          rq' = [kind |-> kind, pc |-> "count", pageParam |-> p, sizeParam |-> s,
                 page |-> EffectivePage(p), pageSize |-> EffectivePageSize(s)]
    /\ UNCHANGED <<hlIn, hlOut, hlDone, files, chunks, tmp, clock, uploads, alive>>

ListError(kind) ==
    IF kind = "index" THEN Response(500, "Error loading page")
    ELSE Response(500, "Error listing files")

\* countDocuments() settles
ListCount ==
    /\ alive
    /\ rq.kind \in {"index", "files"}
    /\ rq.pc = "count"
    /\ \E ok \in BOOLEAN :
          rq' = IF ok
                THEN [totalDocs |-> Cardinality(files),
                      totalPages |-> TotalPages(Cardinality(files), rq.pageSize)]
                     @@ [rq EXCEPT !.pc = "find"]
                ELSE [res |-> ListError(rq.kind)] @@ [rq EXCEPT !.pc = "done"]
    /\ UNCHANGED <<hlIn, hlOut, hlDone, files, chunks, tmp, clock, uploads, alive>>

\* find().sort().skip().limit().toArray() settles and the response is sent
ListFind ==
    /\ alive
    /\ rq.kind \in {"index", "files"}
    /\ rq.pc = "find"
    /\ \E ok \in BOOLEAN :
          IF ok
          THEN \E o \in SortedDesc(files) :
                  LET docs == PageOf(o, rq.page, rq.pageSize)
                  IN  rq' = [res |-> Response(200, "page"),
                             nAtFind |-> Cardinality(files),
                             docs |-> docs,
                             rows |-> IF rq.kind = "index"
                                      THEN [i \in 1..Len(docs) |-> IndexRow(docs[i])]
                                      ELSE <<>>]
                            @@ [rq EXCEPT !.pc = "done"]
          ELSE rq' = [res |-> ListError(rq.kind)] @@ [rq EXCEPT !.pc = "done"]
    /\ UNCHANGED <<hlIn, hlOut, hlDone, files, chunks, tmp, clock, uploads, alive>>

-----------------------------------------------------------------------------
(* search.js: GET /search *)

SEARCH_LIMIT == 50

\* lines 104-125: the text cells of one result row, as placed in the markup
SearchRow(file) ==
    LET md == file.metadata
    IN  [displayName |-> escapeHtml(OrElse(md.name, file.filename)),
         filename |-> escapeHtml(OrElse(file.filename, <<>>)),
         displayType |-> escapeHtml(OrElse(md.type, <<>>)),
         keywords |-> escapeHtml(JoinWith(md.keywords, <<",", " ">>)),
         briefing |-> escapeHtml(OrElse(md.briefing, <<>>)),
         highlight |-> buildHighlightTable(file.highlights),
         href |-> <<"/search/download/">> \o file._id]

\* lines 127-173: the page: the query echoed in the form, and the rows
SearchPage(query, results) ==
    [query |-> escapeHtml(query),
     count |-> Len(results),
     rows |-> [i \in 1..Len(results) |-> SearchRow(results[i])]]

\* line 182: if (!q) return renderSearchPage(res)
IssuesQuery(q) == q.present /\ q.s # <<>>

\* the request arrives: the bare form, or the aggregate call is issued
SearchStart(Q) ==
    /\ alive
    /\ SlotFree
    /\ \E q \in Q :
          rq' = IF IssuesQuery(q)
                THEN [kind |-> "search", pc |-> "aggregate", q |-> q, called |-> TRUE]
                ELSE [kind |-> "search", pc |-> "done", q |-> q, called |-> FALSE,
                      res |-> Response(200, "page"),
                      page |-> SearchPage(<<>>, <<>>)]
    /\ UNCHANGED <<hlIn, hlOut, hlDone, files, chunks, tmp, clock, uploads, alive>>

\* the $project stage, with the score (not modelled) and the highlights
Projected(file, h) ==
    [_id |-> file._id, filename |-> file.filename, uploadDate |-> file.uploadDate,
     length |-> file.length, metadata |-> file.metadata, highlights |-> h]

\* aggregate().toArray() settles: the service picks the matching documents (at
\* most SEARCH_LIMIT) and their highlights; or the call fails
SearchSettle(H) ==
    /\ alive
    /\ rq.kind = "search"
    /\ rq.pc = "aggregate"
    /\ \E ok \in BOOLEAN :
          IF ok
          THEN \E R \in SUBSET files, h \in H :
                  /\ Cardinality(R) <= SEARCH_LIMIT
                  /\ \E o \in SortedDesc(R) :
                        LET results == [i \in 1..Len(o) |-> Projected(o[i], h)]
                        IN  rq' = [res |-> Response(200, "page"),
                                   page |-> SearchPage(rq.q.s, results),
                                   results |-> results]
                                  @@ [rq EXCEPT !.pc = "done"]
          ELSE rq' = [res |-> Response(500, "Search error")]
                     @@ [rq EXCEPT !.pc = "done"]
    /\ UNCHANGED <<hlIn, hlOut, hlDone, files, chunks, tmp, clock, uploads, alive>>

-----------------------------------------------------------------------------
(* GET /files/:id (server.js) and GET /search/download/:id (search.js) *)

HexDigits == Digits \cup {"a", "b", "c", "d", "e", "f", "A", "B", "C", "D", "E", "F"}

\* new ObjectId(string): 24 hex digits, read without regard to case; anything
\* else throws
ObjectIdOf(s) ==
    IF Len(s) = 24 /\ \A i \in 1..24 : s[i] \in HexDigits
    THEN [ok |-> TRUE, id |-> toLowerCase(s)]
    ELSE [ok |-> FALSE, id |-> <<>>]

OCTET_STREAM == <<"application/", "octet-stream">>

\* the request arrives: the id is parsed, then findOne is awaited
DownloadStart(route, I) ==
    /\ alive
    /\ SlotFree
    /\ \E s \in I :
          LET o == ObjectIdOf(s)
          IN  rq' = IF o.ok
                    THEN [kind |-> route, pc |-> "findOne", idParam |-> s, id |-> o.id]
                    ELSE [kind |-> route, pc |-> "done", idParam |-> s, id |-> o.id,
                          res |-> Response(500, "Download error"), streamed |-> {},
                          dbError |-> FALSE]
    /\ UNCHANGED <<hlIn, hlOut, hlDone, files, chunks, tmp, clock, uploads, alive>>

\* findOne settles: 404, or the headers and the blob piped to the response
DownloadSettle ==
    /\ alive
    /\ rq.kind \in {"files/:id", "search/download/:id"}
    /\ rq.pc = "findOne"
    /\ \E ok \in BOOLEAN :
          LET found == {f \in files : f._id = rq.id}
          IN  rq' = IF ~ok
                    THEN [res |-> Response(500, "Download error"), streamed |-> {},
                          dbError |-> TRUE]
                         @@ [rq EXCEPT !.pc = "done"]
                    ELSE IF found = {}
                    THEN [res |-> Response(404, "File not found"), streamed |-> {},
                          dbError |-> FALSE]
                         @@ [rq EXCEPT !.pc = "done"]
                    ELSE LET fileDoc == CHOOSE f \in found : TRUE
                         IN  [res |-> Response(200, "blob"),
                              contentType |-> OrElse(fileDoc.contentType, OCTET_STREAM),
                              disposition |-> fileDoc.filename,
                              streamed |-> {rq.id}, dbError |-> FALSE]
                             @@ [rq EXCEPT !.pc = "done"]
    /\ UNCHANGED <<hlIn, hlOut, hlDone, files, chunks, tmp, clock, uploads, alive>>

-----------------------------------------------------------------------------
(* Inputs of the highlight renderer *)

SegTails == {<<>>, <<"a">>, <<"&">>}
SegPads == {0, AROUND_LEN - 1, AROUND_LEN}
SegValues == {Rep("a", n) \o t : n \in SegPads, t \in SegTails}
Segments == [type : {"hit", "text"}, value : SegValues]
TextLists == SeqsUpTo(Segments, MaxSegs)
HlPaths == {<<"m", ".", "n">>}
Entries == [path : HlPaths, texts : TextLists]
\* the entries after the first are one fixed entry
RestEntries ==
    { [path |-> <<"<", "c", ">">>,
       texts |-> <<[type |-> "text", value |-> <<"x", "<">>],
                   [type |-> "hit", value |-> <<"q">>]>>] }
HighlightLists ==
    {<<>>} \cup
    {<<e>> \o r : e \in Entries, r \in SeqsUpTo(RestEntries, MaxHl - 1)}
HighlightArgs ==
    {[isArray |-> FALSE, items |-> <<>>]} \cup
    {[isArray |-> TRUE, items |-> l] : l \in HighlightLists}

\* highlight lists for the rows of the table: two fields, so that a list can
\* hold two entries of one field, and a few text lists (none, one hit, a hit
\* before and after context, a context longer than AROUND_LEN)
RowPaths == {<<"m", ".", "n">>, <<"<", "c", ">">>}
RowTexts ==
    { <<>>,
      <<[type |-> "hit", value |-> <<"q", "<">>]>>,
      <<[type |-> "text", value |-> <<"x", "&">>], [type |-> "hit", value |-> <<"q">>]>>,
      <<[type |-> "hit", value |-> <<"q">>], [type |-> "text", value |-> <<"x", "&">>]>>,
      <<[type |-> "text", value |-> Rep("a", AROUND_LEN) \o <<"&">>]>> }
RowEntries == [path : RowPaths, texts : RowTexts]
RowArgs ==
    {[isArray |-> FALSE, items |-> <<>>]} \cup
    {[isArray |-> TRUE, items |-> l] : l \in SeqsUpTo(RowEntries, MaxHl)}

-----------------------------------------------------------------------------
(* Inputs of the server *)

NoFile == [present |-> FALSE]

MkFile(size, mimetype, name, docText) ==
    [present |-> TRUE, size |-> size, mimetype |-> mimetype, originalname |-> name,
     \* the bytes decoded as UTF-8: empty exactly for a zero-length file
     text |-> IF size = 0 THEN <<>> ELSE <<"{", "}">>,
     \* what mammoth reads out of the file
     docText |-> docText]

UploadSizes == {0, 2, TEN_MB, TEN_MB + 1}
UploadMimes ==
    {APP_JSON, <<"Application/", "JSON">>, TEXT_XML, <<"application/", "rss", "+xml">>,
     DOCX, <<"text/", "plain">>, <<>>}
UploadFiles ==
    {NoFile} \cup
    {MkFile(sz, mt, <<"r", ".", "x">>, d) :
        sz \in UploadSizes, mt \in UploadMimes, d \in {<<>>, <<"w">>}}

EmptyBody == [displayName |-> <<>>, type |-> <<>>, keywords |-> <<>>, briefing |-> <<>>]
FullBody == [displayName |-> <<"Q", "<", "1">>, type |-> <<"t">>,
             keywords |-> <<"a", ",", " ", ",", "b">>, briefing |-> <<"b", "&">>]
UploadBodies == {EmptyBody, FullBody}

SmallFiles == {NoFile, MkFile(2, APP_JSON, <<"<", "r", ">">>, <<>>)}

ListFiles == {MkFile(0, <<"text/", "plain">>, <<"r">>, <<>>)}
ListBodies == {EmptyBody}

\* the keywords form values: letters, commas and blanks in every arrangement
KwSymbols == {"a", ",", " "}
KeywordValues == SeqsUpTo(KwSymbols, MaxKw)
KeywordBodies == {[EmptyBody EXCEPT !.keywords = k] : k \in KeywordValues}

\* the keywords cells of the index page last answered, typed into the form again
ShownKeywords ==
    IF rq.kind = "index" /\ rq.pc = "done" /\ "rows" \in DOMAIN rq
    THEN {rq.rows[i].keywords : i \in 1..Len(rq.rows)}
    ELSE {}
ResubmitBodies == {[EmptyBody EXCEPT !.keywords = k] : k \in ShownKeywords}

\* the files of the store specification: none, or a small text file
StoreFiles == {NoFile, MkFile(2, <<"text/", "plain">>, <<"r">>, <<>>)}

PageParams == {Absent, Given(<<"0">>), Given(<<"-", "1">>), Given(<<"2">>),
               Given(<<"3", "x">>)}
SizeParams == {Absent, Given(<<"0">>), Given(<<"-", "2">>), Given(<<"1">>),
               Given(<<"2">>)}
SmallPageParams == {Absent, Given(<<"2">>)}
SmallSizeParams == {Absent, Given(<<"1">>)}

Queries == {Absent, Given(<<>>), Given(<<" ">>), Given(<<"q", "<">>)}

NoHighlights == [isArray |-> FALSE, items |-> <<>>]
SearchHighlights ==
    {NoHighlights,
     [isArray |-> TRUE,
      items |-> <<[path |-> <<"m", ".", "n">>,
                   texts |-> <<[type |-> "hit", value |-> <<"<", "r">>]>>]>>]}

UpperId(u) == [i \in 1..24 |-> IF FileId(u)[i] = "a" THEN "A" ELSE FileId(u)[i]]
IdParams ==
    {FileId(u) : u \in 1..MaxUploads} \cup {UpperId(1)}
    \cup {Rep("f", 24), <<"a", "b", "c">>, Rep("0", 23) \o <<"z">>}

-----------------------------------------------------------------------------
(* Specifications *)

HighlightQuiet ==
    /\ hlIn = NoHighlights
    /\ hlOut = <<>>
    /\ hlDone = TRUE

ServerInit(n) ==
    /\ files = {}
    /\ chunks = {}
    /\ tmp = {}
    /\ clock = 0
    /\ uploads = [u \in 1..n |-> IdleUpload]
    /\ rq = NoRequest
    /\ alive = TRUE

\* the whole server, on small inputs
Init == HighlightQuiet /\ ServerInit(MaxUploads)

Next ==
    \/ \E u \in DOMAIN uploads : UploadStart(u, SmallFiles, UploadBodies)
    \/ \E u \in DOMAIN uploads : ExtractSettle(u)
    \/ \E u \in DOMAIN uploads : StreamChunk(u)
    \/ \E u \in DOMAIN uploads : StreamFinish(u)
    \/ \E u \in DOMAIN uploads : StreamError(u)
    \/ \E u \in DOMAIN uploads : ReadStreamError(u)
    \/ ListStart("index", SmallPageParams, SmallSizeParams)
    \/ ListStart("files", SmallPageParams, SmallSizeParams)
    \/ ListCount
    \/ ListFind
    \/ SearchStart(Queries)
    \/ SearchSettle(SearchHighlights)
    \/ DownloadStart("files/:id", IdParams)
    \/ DownloadStart("search/download/:id", IdParams)
    \/ DownloadSettle

Spec == Init /\ [][Next]_vars

\* POST /upload alone, on every kind of file
InitUpload == HighlightQuiet /\ ServerInit(MaxUploads)

NextUpload ==
    \/ \E u \in DOMAIN uploads : UploadStart(u, UploadFiles, UploadBodies)
    \/ \E u \in DOMAIN uploads : ExtractSettle(u)
    \/ \E u \in DOMAIN uploads : StreamChunk(u)
    \/ \E u \in DOMAIN uploads : StreamFinish(u)
    \/ \E u \in DOMAIN uploads : StreamError(u)
    \/ \E u \in DOMAIN uploads : ReadStreamError(u)

SpecUpload == InitUpload /\ [][NextUpload]_vars

\* the whole server over a store that several uploads fill
InitStore == HighlightQuiet /\ ServerInit(MaxListDocs)

NextStore ==
    \/ \E u \in DOMAIN uploads : UploadStart(u, StoreFiles, ListBodies)
    \/ \E u \in DOMAIN uploads : StreamChunk(u)
    \/ \E u \in DOMAIN uploads : StreamFinish(u)
    \/ \E u \in DOMAIN uploads : StreamError(u)
    \/ \E u \in DOMAIN uploads : ReadStreamError(u)
    \/ ListStart("index", SmallPageParams, SmallSizeParams)
    \/ ListStart("files", SmallPageParams, SmallSizeParams)
    \/ ListCount
    \/ ListFind
    \/ SearchStart(Queries)
    \/ SearchSettle(SearchHighlights)
    \/ DownloadStart("files/:id", IdParams)
    \/ DownloadStart("search/download/:id", IdParams)
    \/ DownloadSettle

SpecStore == InitStore /\ [][NextStore]_vars

\* an upload with a keywords value, the index page that shows its keywords, and
\* a second upload whose keywords value is what that page showed
InitKeywords == HighlightQuiet /\ ServerInit(2)

NextKeywords ==
    \/ UploadStart(1, ListFiles, KeywordBodies)
    \/ UploadStart(2, ListFiles, ResubmitBodies)
    \/ \E u \in DOMAIN uploads : StreamFinish(u)
    \/ ListStart("index", {Absent}, {Absent})
    \/ ListCount
    \/ ListFind

SpecKeywords == InitKeywords /\ [][NextKeywords]_vars

\* the listing routes over a store that uploads fill, on every kind of parameter
InitList == HighlightQuiet /\ ServerInit(MaxListDocs)

NextList ==
    \/ \E u \in DOMAIN uploads : UploadStart(u, ListFiles, ListBodies)
    \/ \E u \in DOMAIN uploads : StreamFinish(u)
    \/ ListStart("index", PageParams, SizeParams)
    \/ ListStart("files", PageParams, SizeParams)
    \/ ListCount
    \/ ListFind

SpecList == InitList /\ [][NextList]_vars

\* buildHighlightTable alone, on every highlight list of the bounds
InitHighlight ==
    /\ hlIn \in HighlightArgs
    /\ hlOut = <<>>
    /\ hlDone = FALSE
    /\ ServerInit(0)

\* renderSearchPage line 108: the call of buildHighlightTable on file.highlights
CallBuildHighlightTable ==
    /\ ~hlDone
    /\ hlOut' = buildHighlightTable(hlIn)
    /\ hlDone' = TRUE
    /\ UNCHANGED hlIn

NextHighlight == CallBuildHighlightTable /\ UNCHANGED srvVars

SpecHighlight == InitHighlight /\ [][NextHighlight]_vars

\* buildHighlightTable alone, on the highlight lists for the rows
InitRows ==
    /\ hlIn \in RowArgs
    /\ hlOut = <<>>
    /\ hlDone = FALSE
    /\ ServerInit(0)

SpecRows == InitRows /\ [][NextHighlight]_vars

-----------------------------------------------------------------------------
(* Reading a rendered page back *)

\* the runs of s between each `open` symbol and the next `close` symbol, in order
Regions(s, open, close) ==
    LET O == {i \in 1..Len(s) : s[i] = open /\ \E j \in (i + 1)..Len(s) : s[j] = close}
        closeOf(i) == CHOOSE j \in (i + 1)..Len(s) :
                          s[j] = close /\ \A k \in (i + 1)..(j - 1) : s[k] # close
        nth(k) == CHOOSE i \in O : Cardinality({j \in O : j < i}) = k - 1
    IN  [k \in 1..Cardinality(O) |-> SubSeq(s, nth(k) + 1, closeOf(nth(k)) - 1)]

Entities ==
    { <<"&", <<"&", "a", "m", "p", ";">> >>,
      <<"<", <<"&", "l", "t", ";">> >>,
      <<">", <<"&", "g", "t", ";">> >>,
      <<"\"", <<"&", "q", "u", "o", "t", ";">> >>,
      <<"'", <<"&", "#", "3", "9", ";">> >> }

\* what a browser shows for escaped text: each entity read back as its character
Unescape(s) ==
    LET \* the entity that starts at position i, if one does
        at(i) == {e \in Entities :
                     i + Len(e[2]) - 1 <= Len(s) /\ SubSeq(s, i, i + Len(e[2]) - 1) = e[2]}
        \* position i lies inside an entity that starts before it
        inside(i) == \E j \in Max(1, i - 5)..(i - 1) :
                        \E e \in at(j) : i <= j + Len(e[2]) - 1
        kept == SelectSeq([i \in 1..Len(s) |-> i], LAMBDA i : ~inside(i))
    IN  [k \in 1..Len(kept) |->
            IF at(kept[k]) = {} THEN s[kept[k]]
            ELSE (CHOOSE e \in at(kept[k]) : TRUE)[1]]

\* the values of the segments of the given type, over all entries, in order
ValuesOfType(items, ty) ==
    Join([i \in 1..Len(items) |->
            Join([j \in 1..Len(items[i].texts) |->
                    IF items[i].texts[j].type = ty
                    THEN <<items[i].texts[j].value>> ELSE <<>>])])

-----------------------------------------------------------------------------
(* C1 *)

\* a search string that is absent, empty, or white space only
IsBlank(q) == ~q.present \/ \A i \in 1..Len(q.s) : IsSpace(q.s[i])

\* C1: a GET /search whose q is absent, empty or only white space issues no
\* call to the search service and renders the bare form with zero results.
C1_BlankQueryIssuesNoCall ==
    (rq.kind = "search" /\ IsBlank(rq.q)) =>
        /\ ~rq.called
        /\ rq.pc = "done"
        /\ rq.res = Response(200, "page")
        /\ rq.page.count = 0

-----------------------------------------------------------------------------
(* C2 *)

\* the cell holds the escaped form of the raw text: no markup character is left
\* in it and a browser reads it back as the raw text
IsEscaped(cell, raw) ==
    /\ \A i \in 1..Len(cell) : cell[i] \notin {"<", ">", "\"", "'"}
    /\ Unescape(cell) = raw
    /\ cell = escapeHtml(raw)

\* the user- or document-derived texts of a Stored File Record, as the pages show them
RawCells(file) ==
    [displayName |-> OrElse(file.metadata.name, file.filename),
     filename |-> file.filename,
     displayType |-> file.metadata.type,
     keywords |-> JoinWith(file.metadata.keywords, <<",", " ">>),
     briefing |-> file.metadata.briefing]

CellNames == {"displayName", "filename", "displayType", "keywords", "briefing"}

\* C2: in every page the server produces (GET / and GET /search) every user- or
\* document-derived string is HTML-escaped before it is placed into the markup.
C2_PagesEscaped ==
    /\ (rq.kind = "index" /\ rq.pc = "done" /\ rq.res.status = 200) =>
          \A i \in 1..Len(rq.rows) : \A c \in CellNames :
              IsEscaped(rq.rows[i][c], RawCells(rq.docs[i])[c])
    /\ (rq.kind = "search" /\ rq.pc = "done" /\ rq.res.status = 200 /\ rq.called) =>
          /\ IsEscaped(rq.page.query, rq.q.s)
          /\ \A i \in 1..Len(rq.page.rows) : \A c \in CellNames :
                IsEscaped(rq.page.rows[i][c], RawCells(rq.results[i])[c])

-----------------------------------------------------------------------------
(* C3 *)

\* C3: every segment tagged "hit" is rendered in full: the marked runs of the
\* returned table are, in order, the whole escaped texts of the hit segments
\* (each reads back as the segment's value), whatever their length.
C3_HitsUnabridged ==
    hlDone =>
        LET marked == Regions(hlOut, "<mark>", "</mark>")
            hits == ValuesOfType(hlIn.items, "hit")
        IN  /\ Len(marked) = Len(hits)
            /\ \A k \in 1..Len(hits) :
                  /\ marked[k] = escapeHtml(hits[k])
                  /\ Unescape(marked[k]) = hits[k]

\* a hit longer than AROUND_LEN whose escaped text is longer still was rendered
C3_Witness ==
    /\ hlDone
    /\ \E i \in 1..Len(hlIn.items) : \E j \in 1..Len(hlIn.items[i].texts) :
          LET t == hlIn.items[i].texts[j]
          IN  /\ t.type = "hit"
              /\ Len(t.value) > AROUND_LEN
              /\ Len(escapeHtml(t.value)) > Len(t.value)
    /\ hlOut # <<>>

-----------------------------------------------------------------------------
(* C4 *)

\* the part C4 states for a segment: a "text" segment longer than AROUND_LEN as
\* the ellipsis and its trailing AROUND_LEN characters, a shorter one verbatim
ClaimedPart(t) ==
    IF t.type = "hit" THEN MarkOpen \o escapeHtml(t.value) \o MarkClose
    ELSE IF Len(t.value) > AROUND_LEN
         THEN Ellipsis \o escapeHtml(SliceFrom(t.value, Len(t.value) - AROUND_LEN))
         ELSE escapeHtml(t.value)

\* C4: every "text" segment longer than 80 characters is rendered as the
\* ellipsis and exactly its trailing 80 characters, and every one of 80
\* characters or fewer verbatim, also when escaping expands its characters.
C4_TextSegmentsAsClaimed ==
    (hlDone /\ hlIn.isArray /\ hlIn.items # <<>>) =>
        LET cells == Regions(hlOut, "<td>", "</td>")
        IN  /\ Len(cells) = 2 * Len(hlIn.items)
            /\ \A i \in 1..Len(hlIn.items) :
                  cells[2 * i] =
                      Join([j \in 1..Len(hlIn.items[i].texts) |->
                              ClaimedPart(hlIn.items[i].texts[j])])

-----------------------------------------------------------------------------
(* C5 *)

\* the uploads whose handler has built the Metadata Document
Built == {u \in DOMAIN uploads : uploads[u].pc \in {"streaming", "done", "failed"}}

\* the upload that wrote a Stored File Record
UploadOf(f) == CHOOSE u \in DOMAIN uploads : FileId(u) = f._id

HasContent(md) == "content" \in DOMAIN md

\* the declared types the extraction supports: JSON, XML or a +xml type, DOCX
SupportedTypes ==
    {APP_JSON, TEXT_JSON, APP_XML, TEXT_XML, DOCX, <<"application/", "rss", "+xml">>}

\* C5: in every Metadata Document POST /upload writes, content is present
\* only if the file is at most 10MB and of a supported declared type, and a
\* present content is a non-empty string.
C5_ContentOnlyWhenExtractable ==
    /\ \A f \in files :
          /\ UploadOf(f) \in Built
          /\ f.metadata = uploads[UploadOf(f)].metadata
    /\ \A u \in Built :
          HasContent(uploads[u].metadata) =>
              /\ uploads[u].file.size <= 10 * 1024 * 1024
              /\ toLowerCase(uploads[u].file.mimetype) \in SupportedTypes
              /\ uploads[u].metadata.content # <<>>

\* a file of exactly 10MB was stored with its content
C5_Witness ==
    \E f \in files :
        /\ HasContent(f.metadata)
        /\ f.length = 10 * 1024 * 1024
        /\ f.metadata.content # <<>>

-----------------------------------------------------------------------------
(* C6 *)

\* the records of the uploads that declared application/json
JsonDocs == {f \in files : uploads[UploadOf(f)].file.mimetype = APP_JSON}

\* C6 as stated: every application/json upload of at most 10MB, a zero-length
\* one included, is stored with content equal to the decoded file; above
\* 10MB content is absent.
C6_JsonContentAsClaimed ==
    \A f \in JsonDocs :
        LET file == uploads[UploadOf(f)].file
        IN  IF file.size <= 10 * 1024 * 1024
            THEN HasContent(f.metadata) /\ f.metadata.content = file.text
            ELSE ~HasContent(f.metadata)

\* C6 (amended): an application/json upload of at most 10MB that is not empty
\* and whose read succeeds is stored with content equal to the decoded file;
\* a zero-length file, a failed read, or a size above 10MB stores no content.
C6_JsonContent ==
    \A f \in JsonDocs :
        LET up == uploads[UploadOf(f)]
        IN  IF up.file.size <= 10 * 1024 * 1024 /\ up.file.size > 0 /\ ~up.logged
            THEN HasContent(f.metadata) /\ f.metadata.content = up.file.text
            ELSE ~HasContent(f.metadata)

\* a non-empty application/json file was stored with its decoded text
C6_Witness ==
    \E f \in JsonDocs :
        /\ f.length > 0
        /\ HasContent(f.metadata)
        /\ f.metadata.content = uploads[UploadOf(f)].file.text

-----------------------------------------------------------------------------
(* C7 *)

\* C7: a failed extraction does not abort the upload: the handler goes on to
\* the blob write with a Metadata Document without content, the answer is the
\* redirect to / when the write ends (a 500 only when the blob write itself
\* fails), and the stored record has no content.
C7_ExtractionFailureRecovered ==
    \A u \in DOMAIN uploads :
        uploads[u].logged =>
            /\ u \in Built
            /\ ~HasContent(uploads[u].metadata)
            /\ uploads[u].pc = "streaming" => uploads[u].res = <<>>
            /\ uploads[u].pc = "done" =>
                  /\ uploads[u].res = <<Response(302, "/")>>
                  /\ \E f \in files : f._id = FileId(u) /\ ~HasContent(f.metadata)
            /\ uploads[u].pc = "failed" =>
                  uploads[u].res = <<Response(500, "Upload failed")>>

\* an upload whose extraction failed was stored and answered with the redirect
C7_Witness ==
    \E u \in DOMAIN uploads :
        /\ uploads[u].logged
        /\ uploads[u].pc = "done"
        /\ uploads[u].res = <<Response(302, "/")>>
        /\ \E f \in files : f._id = FileId(u)

-----------------------------------------------------------------------------
(* C8 *)

\* the ids of the records the answered request shows or streams
ShownIds ==
    IF rq.pc # "done" THEN {}
    ELSE IF rq.kind \in {"index", "files"} /\ rq.res.status = 200
         THEN {rq.docs[i]._id : i \in 1..Len(rq.docs)}
    ELSE IF rq.kind = "search" /\ rq.res.status = 200 /\ rq.called
         THEN {rq.results[i]._id : i \in 1..Len(rq.results)}
    ELSE IF rq.kind \in {"files/:id", "search/download/:id"}
         THEN rq.streamed
    ELSE {}

\* C8: an upload whose blob write failed is answered with the 500 "Upload
\* failed" and never with the redirect, and no record of it is in the files
\* collection or shown by a listing, a search or a download.
C8_FailedWriteLeavesNoRecord ==
    \A u \in DOMAIN uploads :
        uploads[u].pc = "failed" =>
            /\ uploads[u].res = <<Response(500, "Upload failed")>>
            /\ \A f \in files : f._id # FileId(u)
            /\ FileId(u) \notin ShownIds

\* a write failed after chunks were written, and a listing was answered since
C8_Witness ==
    \E u \in DOMAIN uploads :
        /\ uploads[u].pc = "failed"
        /\ FileId(u) \in chunks
        /\ rq.kind = "index" /\ rq.pc = "done" /\ rq.res.status = 200

-----------------------------------------------------------------------------
(* C9 *)

\* the identifier string names no record of the files collection
IdentifiesNoFile(s) == \A f \in files : f._id # toLowerCase(s)

\* C9: for an identifier that identifies no stored file, GET /files/:id and
\* GET /search/download/:id answer 404 and stream no blob (the database call
\* itself not failing).
C9_UnknownIdIs404 ==
    (/\ rq.kind \in {"files/:id", "search/download/:id"}
     /\ rq.pc = "done"
     /\ ~rq.dbError
     /\ IdentifiesNoFile(rq.idParam)) =>
        /\ rq.res = Response(404, "File not found")
        /\ rq.streamed = {}

-----------------------------------------------------------------------------
(* C10 *)

\* the decimal text of a number from 1 to 9
Decimal(n) ==
    <<CASE n = 1 -> "1" [] n = 2 -> "2" [] n = 3 -> "3" [] n = 4 -> "4" [] n = 5 -> "5"
        [] n = 6 -> "6" [] n = 7 -> "7" [] n = 8 -> "8" [] OTHER -> "9">>

\* the least k with k * b >= a
Ceil(a, b) == CHOOSE k \in 0..a : k * b >= a /\ \A j \in 0..(k - 1) : j * b < a

\* the number of rows of the answered listing
RowCount == IF rq.kind = "index" THEN Len(rq.rows) ELSE Len(rq.docs)

\* C10: an answered listing (GET / or GET /files) has page = the supplied
\* number, 1 when none is supplied, never below 1; pageSize likewise with 20;
\* totalPages = max(ceil(N / pageSize), 1) for the N documents counted; and
\* min(pageSize, max(0, N - (page - 1) * pageSize)) rows for the N documents
\* found, in descending upload-time order.
C10_Pagination ==
    (rq.kind \in {"index", "files"} /\ rq.pc = "done" /\ rq.res.status = 200) =>
        /\ rq.page >= 1 /\ rq.pageSize >= 1
        /\ ~rq.pageParam.present => rq.page = 1
        /\ ~rq.sizeParam.present => rq.pageSize = 20
        /\ \A n \in 1..9 :
              /\ rq.pageParam = Given(Decimal(n)) => rq.page = n
              /\ rq.sizeParam = Given(Decimal(n)) => rq.pageSize = n
        /\ rq.totalPages = Max(Ceil(rq.totalDocs, rq.pageSize), 1)
        /\ RowCount =
              Min(rq.pageSize, Max(0, rq.nAtFind - (rq.page - 1) * rq.pageSize))
        /\ Len(rq.docs) = RowCount
        /\ \A i, j \in 1..Len(rq.docs) :
              i < j => /\ rq.docs[i].uploadDate >= rq.docs[j].uploadDate
                       /\ rq.docs[i]._id # rq.docs[j]._id
        /\ \A i \in 1..Len(rq.docs) : rq.docs[i] \in files

\* the second page of one row each, over two documents: one row, two pages
C10_Witness ==
    /\ rq.kind \in {"index", "files"} /\ rq.pc = "done" /\ rq.res.status = 200
    /\ rq.pageParam = Given(<<"2">>) /\ rq.sizeParam = Given(<<"1">>)
    /\ rq.totalDocs = 2 /\ rq.nAtFind = 2
    /\ rq.totalPages = 2
    /\ RowCount = 1


-----------------------------------------------------------------------------
(* C11: the store of file records only grows *)

\* a step of a listing, search or download request
ReadRequestStep == rq' # rq

\* a step in which one POST /upload ends with its redirect
UploadFinishStep ==
    \E u \in DOMAIN uploads : uploads[u].pc = "streaming" /\ uploads'[u].pc = "done"

\* C11: in every step of the server, every Stored File Record present before the
\* step is present after it with the same identifier, filename, content type,
\* length, upload timestamp and Metadata Document, and no second record takes
\* its identifier; a step of a listing, search or download request leaves the
\* records and the stored chunks as they were; and the records change only in
\* the step that ends one POST /upload, which adds at most one record.
C11_StoreOnlyGrows ==
    [][/\ \A f \in files : f \in files'
       /\ \A f \in files, g \in files' : g._id = f._id => g = f
       /\ Cardinality(files' \ files) <= 1
       /\ ReadRequestStep => files' = files /\ chunks' = chunks
       /\ files' # files => UploadFinishStep]_vars

\* a second record has been written beside an earlier one, and a search request
\* answered after that shows records of the store
C11_Witness ==
    /\ Cardinality(files) >= 2
    /\ rq.kind = "search"
    /\ rq.pc = "done"
    /\ rq.called
    /\ rq.res.status = 200
    /\ Len(rq.results) >= 1

-----------------------------------------------------------------------------
(* C12: the keywords of an upload, their display, and the display typed again *)

\* position p of t lies in a keyword: it is no comma, and its comma-free run
\* has a character that is no blank at or before p, and one at or after p
InKeyword(t, p) ==
    /\ t[p] # ","
    /\ \E l \in 1..p, r \in p..Len(t) :
          /\ \A i \in l..r : t[i] # ","
          /\ ~IsSpace(t[l])
          /\ ~IsSpace(t[r])

KeywordStarts(t) ==
    {p \in 1..Len(t) : InKeyword(t, p) /\ (p = 1 \/ ~InKeyword(t, p - 1))}
KeywordEnds(t) ==
    {p \in 1..Len(t) : InKeyword(t, p) /\ (p = Len(t) \/ ~InKeyword(t, p + 1))}

\* the k-th number of a set of numbers, counted from the least
Kth(S, k) == CHOOSE p \in S : Cardinality({q \in S : q < p}) = k - 1

\* the keywords a form value holds, read off the value by position
KeywordsIn(t) ==
    [k \in 1..Cardinality(KeywordStarts(t)) |->
        SubSeq(t, Kth(KeywordStarts(t), k), Kth(KeywordEnds(t), k))]

\* where the k-th entry begins in the comma-and-space join of ks (0-based)
DisplayOffset(ks, k) ==
    LET F[i \in 1..k] == IF i = 1 THEN 0 ELSE F[i - 1] + Len(ks[i - 1]) + 2
    IN  F[k]

\* d is the entries of ks in order, with a comma and a blank between neighbours
IsCommaSpaceJoin(d, ks) ==
    IF ks = <<>> THEN d = <<>>
    ELSE /\ Len(d) = DisplayOffset(ks, Len(ks)) + Len(ks[Len(ks)])
         /\ \A k \in 1..Len(ks) :
               LET o == DisplayOffset(ks, k)
               IN  /\ SubSeq(d, o + 1, o + Len(ks[k])) = ks[k]
                   /\ k < Len(ks) =>
                         SubSeq(d, o + Len(ks[k]) + 1, o + Len(ks[k]) + 2) = <<",", " ">>

\* the uploads that carried a file and have their Metadata Document
WithMetadata == {u \in Built : uploads[u].file.present}

\* C12: the keyword sequence stored for a keywords form value is the keywords
\* the value holds between its commas, trimmed, in their order, so no entry is
\* empty or blank; the keywords cell of an index row is the comma-and-space
\* join of the row's stored sequence; and an upload whose keywords value is the
\* keywords cell of a stored record stores the sequence of that record.
C12_KeywordsRoundTrip ==
    /\ \A u \in WithMetadata :
          LET stored == uploads[u].metadata.keywords
          IN  /\ stored = KeywordsIn(uploads[u].body.keywords)
              /\ \A i \in 1..Len(stored) :
                    /\ stored[i] # <<>>
                    /\ \E j \in 1..Len(stored[i]) : ~IsSpace(stored[i][j])
    /\ (rq.kind = "index" /\ rq.pc = "done" /\ rq.res.status = 200) =>
          \A i \in 1..Len(rq.rows) :
              IsCommaSpaceJoin(rq.rows[i].keywords, rq.docs[i].metadata.keywords)
    /\ \A f \in files : \A v \in WithMetadata :
          uploads[v].body.keywords = IndexRow(f).keywords =>
              uploads[v].metadata.keywords = f.metadata.keywords

\* a value with an empty piece and a padded piece was stored as two keywords, the
\* index page showed them, and the second upload, given the cell, stored the same
C12_Witness ==
    /\ rq.kind = "index" /\ rq.pc = "done" /\ rq.res.status = 200
    /\ \A u \in {1, 2} : uploads[u].pc = "done" /\ uploads[u].file.present
    /\ Len(uploads[1].metadata.keywords) >= 2
    /\ Len(KeywordsIn(uploads[1].body.keywords)) < Len(Split(uploads[1].body.keywords, ","))
    /\ \E i \in 1..Len(uploads[1].body.keywords) :
          IsSpace(uploads[1].body.keywords[i])
    /\ uploads[2].body.keywords # uploads[1].body.keywords
    /\ uploads[2].body.keywords \in {rq.rows[i].keywords : i \in 1..Len(rq.rows)}
    /\ uploads[2].metadata.keywords = uploads[1].metadata.keywords

-----------------------------------------------------------------------------
(* C13: the rows of the highlight sub-table *)

\* the cells of the body rows of a rendered table, row by row: <<path, snippet>>
BodyRows(out) ==
    LET cells == Regions(out, "<td>", "</td>")
    IN  [k \in 1..(Len(cells) \div 2) |-> <<cells[2 * k - 1], cells[2 * k]>>]

\* the number of <tr> rows between <tbody> and </tbody>
BodyRowCount(out) ==
    LET bodies == Regions(out, "<tbody>", "</tbody>")
    IN  IF bodies = <<>> THEN 0
        ELSE Cardinality({i \in 1..Len(bodies[1]) : bodies[1][i] = "<tr>"})

\* the fields that received a highlight
HighlightedFields == {hlIn.items[i].path : i \in 1..Len(hlIn.items)}

\* the call returned the empty string for a missing or empty highlight list
EmptyListGivesEmptyString ==
    (hlDone /\ (~hlIn.isArray \/ hlIn.items = <<>>)) => hlOut = <<>>

\* C13: for a highlight list the table has exactly one row per field that
\* received a highlight and none for another field; for an empty or missing
\* list the empty string is returned.
C13_OneRowPerField ==
    /\ EmptyListGivesEmptyString
    /\ (hlDone /\ hlIn.isArray /\ hlIn.items # <<>>) =>
          LET rows == BodyRows(hlOut)
          IN  /\ BodyRowCount(hlOut) = Cardinality(HighlightedFields)
              /\ \A f \in HighlightedFields :
                    Cardinality({k \in 1..Len(rows) : Unescape(rows[k][1]) = f}) = 1
              /\ \A k \in 1..Len(rows) : Unescape(rows[k][1]) \in HighlightedFields

\* C13 (amended): for a highlight list the table has exactly one row per
\* highlight entry, in the order of the list (a field with several entries has
\* one row for each); the row's first cell is the entry's escaped field path and
\* its second cell the entry's rendered segments concatenated in their order,
\* empty for an entry without segments; for an empty or missing list the empty
\* string is returned.
C13_OneRowPerEntry ==
    /\ EmptyListGivesEmptyString
    /\ (hlDone /\ hlIn.isArray /\ hlIn.items # <<>>) =>
          LET rows == BodyRows(hlOut)
          IN  /\ SubSeq(hlOut, 1, Len(TableOpen)) = TableOpen
              /\ BodyRowCount(hlOut) = Len(hlIn.items)
              /\ Len(rows) = Len(hlIn.items)
              /\ \A i \in 1..Len(rows) :
                    /\ IsEscaped(rows[i][1], hlIn.items[i].path)
                    /\ rows[i][2] =
                          Join([j \in 1..Len(hlIn.items[i].texts) |->
                                  RenderPart(hlIn.items[i].texts[j])])

\* a table was returned for two entries of one field, the first with a context
\* segment before its hit and the second without segments
C13_Witness ==
    /\ hlDone
    /\ hlIn.isArray
    /\ Len(hlIn.items) = 2
    /\ hlIn.items[1].path = hlIn.items[2].path
    /\ Len(hlIn.items[1].texts) = 2
    /\ hlIn.items[1].texts[1].type = "text"
    /\ hlIn.items[2].texts = <<>>
    /\ hlOut # <<>>

-----------------------------------------------------------------------------
(* C14: the response of a POST /upload that carries a file *)

\* the POST /upload requests that arrived with a file
CarriesFile == {u \in DOMAIN uploads : uploads[u].pc # "idle" /\ uploads[u].file.present}

\* a step of the handler of upload u is still to come
HandlerCanStep(u) ==
    ENABLED (ExtractSettle(u) \/ StreamChunk(u) \/ StreamFinish(u) \/ StreamError(u))

\* C14: a POST /upload that carries a file is never answered twice; while it is
\* unanswered a step of its handler is still to come, in every order of the
\* stream events, so that none is left without a response; and its one answer
\* is the redirect to / after the finish, the temp file deleted and the record
\* written, or a 500 after a failure.
C14_ExactlyOneResponse ==
    \A u \in CarriesFile :
        LET up == uploads[u]
        IN  /\ Len(up.res) <= 1
            /\ up.res = <<>> => HandlerCanStep(u)
            /\ up.res # <<>> =>
                  \/ /\ up.res[1] = Response(302, "/")
                     /\ up.pc = "done"
                     /\ u \notin tmp
                     /\ \E f \in files : f._id = FileId(u)
                  \/ /\ up.res[1].status = 500
                     /\ up.pc = "failed"

====
